---- MODULE Spec2Model ----
(***************************************************************************)
(* A model of the tile-grid renderer Tilemap (src/unnamed/part_001): the   *)
(* tile-id classifiers, the autotile shape tables, the map data store, the *)
(* per-cell expansion into rect commands, the repaint memoisation of       *)
(* updateTransform, the depth sort of the children and the deferred commit *)
(* of the tileset bitmaps.                                                 *)
(*                                                                         *)
(* Numbers are JavaScript numbers restricted to the integers the code can  *)
(* produce from integer inputs; NaN and undefined are reserved values.     *)
(* The scroll origin is held in half pixels so that Math.ceil acts.        *)
(***************************************************************************)
EXTENDS Integers, Sequences, FiniteSets, TLC

\* ------------------------------------------------------------------------
\* JavaScript values

\* NaN, as produced by arithmetic on undefined (line 490 with animationFrame
\* undefined); a reserved value no coordinate of the model takes.
NaN == -99999

\* undefined, the value of a field never assigned (animationFrame,
\* _lastAnimationFrame, _lastStartX, _lastStartY after initialize).
Undefined == -88888

\* a * b and a + b of JavaScript numbers: NaN is absorbing.
JsMul(a, b) == IF a = NaN \/ b = NaN THEN NaN ELSE a * b

JsAdd(a, b) == IF a = NaN \/ b = NaN THEN NaN ELSE a + b

\* a % n of JavaScript for n > 0: the remainder truncates toward zero and
\* takes the sign of the dividend.
JsRem(a, n) == IF a >= 0 THEN a % n ELSE 0 - ((0 - a) % n)

\* Number.prototype.mod(n): ((this % n) + n) % n, for n > 0.
NumberMod(x, n) == JsRem(JsRem(x, n) + n, n)

\* Math.ceil of a value given in half units.
CeilHalf(v2) == (v2 + 1) \div 2

\* v & (1 << i) # 0 for an integer v >= 0.
BitSet(v, i) == (v \div (2 ^ i)) % 2 = 1

\* ------------------------------------------------------------------------
\* Tile type checkers

TILE_ID_B == 0
TILE_ID_C == 256
TILE_ID_D == 512
TILE_ID_E == 768
TILE_ID_A5 == 1536
TILE_ID_A1 == 2048
TILE_ID_A2 == 2816
TILE_ID_A3 == 4352
TILE_ID_A4 == 5888
TILE_ID_MAX == 8192

\* The number of shapes of one autotile kind (lines 665, 669, 673).
ShapesPerKind == 48

IsVisibleTile(tileId) == tileId > 0 /\ tileId < TILE_ID_MAX

IsAutotile(tileId) == tileId >= TILE_ID_A1

GetAutotileKind(tileId) == (tileId - TILE_ID_A1) \div ShapesPerKind

GetAutotileShapeWrong(tileId) == JsRem(tileId - TILE_ID_A1, ShapesPerKind - 1)

GetAutotileShape(tileId) == JsRem(tileId - TILE_ID_A1, ShapesPerKind)

MakeAutotileId(kind, shape) == TILE_ID_A1 + kind * ShapesPerKind + shape

IsSameKindTileWrong(tileID1, tileID2) ==
    IF IsAutotile(tileID1) /\ IsAutotile(tileID2)
    THEN GetAutotileShape(tileID1) = GetAutotileShape(tileID2)
    ELSE tileID1 = tileID2

IsSameKindTile(tileID1, tileID2) ==
    IF IsAutotile(tileID1) /\ IsAutotile(tileID2)
    THEN GetAutotileKind(tileID1) = GetAutotileKind(tileID2)
    ELSE tileID1 = tileID2

IsTileA1(tileId) == tileId >= TILE_ID_A1 /\ tileId < TILE_ID_A2

IsTileA2(tileId) == tileId >= TILE_ID_A2 /\ tileId < TILE_ID_A3

IsTileA3(tileId) == tileId >= TILE_ID_A3 /\ tileId < TILE_ID_A4

IsTileA4(tileId) == tileId >= TILE_ID_A4 /\ tileId < TILE_ID_MAX

IsTileA5Wrong(tileId) == tileId >= TILE_ID_A5 /\ tileId <= TILE_ID_A1

IsTileA5(tileId) == tileId >= TILE_ID_A5 /\ tileId < TILE_ID_A1

IsWaterTile(tileId) ==
    IF IsTileA1(tileId)
    THEN ~(tileId >= TILE_ID_A1 + 96 /\ tileId < TILE_ID_A1 + 192)
    ELSE FALSE

IsWaterfallTile(tileId) ==
    IF tileId >= TILE_ID_A1 + 192 /\ tileId < TILE_ID_A2
    THEN GetAutotileKind(tileId) % 2 = 1
    ELSE FALSE

IsGroundTile(tileId) == IsTileA1(tileId) \/ IsTileA2(tileId) \/ IsTileA5(tileId)

IsShadowingTile(tileId) == IsTileA3(tileId) \/ IsTileA4(tileId)

IsRoofTile(tileId) == IsTileA3(tileId) /\ GetAutotileKind(tileId) % 16 < 8

IsWallTopTile(tileId) == IsTileA4(tileId) /\ GetAutotileKind(tileId) % 16 < 8

IsWallSideTile(tileId) ==
    (IsTileA3(tileId) \/ IsTileA4(tileId)) /\ GetAutotileKind(tileId) % 16 >= 8

IsWallTile(tileId) == IsWallTopTile(tileId) \/ IsWallSideTile(tileId)

IsFloorTypeAutotile(tileId) ==
    \/ (IsTileA1(tileId) /\ ~IsWaterfallTile(tileId))
    \/ IsTileA2(tileId)
    \/ IsWallTopTile(tileId)

IsWallTypeAutotileRoofOnly(tileId) == IsRoofTile(tileId)

IsWallTypeAutotile(tileId) == IsRoofTile(tileId) \/ IsWallSideTile(tileId)

IsWaterfallTypeAutotile(tileId) == IsWaterfallTile(tileId)

\* ------------------------------------------------------------------------
\* Autotile shape number to coordinates of tileset images

FLOOR_AUTOTILE_TABLE == <<
  <<<<2, 4>>, <<1, 4>>, <<2, 3>>, <<1, 3>>>>,
  <<<<2, 0>>, <<1, 4>>, <<2, 3>>, <<1, 3>>>>,
  <<<<2, 4>>, <<3, 0>>, <<2, 3>>, <<1, 3>>>>,
  <<<<2, 0>>, <<3, 0>>, <<2, 3>>, <<1, 3>>>>,
  <<<<2, 4>>, <<1, 4>>, <<2, 3>>, <<3, 1>>>>,
  <<<<2, 0>>, <<1, 4>>, <<2, 3>>, <<3, 1>>>>,
  <<<<2, 4>>, <<3, 0>>, <<2, 3>>, <<3, 1>>>>,
  <<<<2, 0>>, <<3, 0>>, <<2, 3>>, <<3, 1>>>>,
  <<<<2, 4>>, <<1, 4>>, <<2, 1>>, <<1, 3>>>>,
  <<<<2, 0>>, <<1, 4>>, <<2, 1>>, <<1, 3>>>>,
  <<<<2, 4>>, <<3, 0>>, <<2, 1>>, <<1, 3>>>>,
  <<<<2, 0>>, <<3, 0>>, <<2, 1>>, <<1, 3>>>>,
  <<<<2, 4>>, <<1, 4>>, <<2, 1>>, <<3, 1>>>>,
  <<<<2, 0>>, <<1, 4>>, <<2, 1>>, <<3, 1>>>>,
  <<<<2, 4>>, <<3, 0>>, <<2, 1>>, <<3, 1>>>>,
  <<<<2, 0>>, <<3, 0>>, <<2, 1>>, <<3, 1>>>>,
  <<<<0, 4>>, <<1, 4>>, <<0, 3>>, <<1, 3>>>>,
  <<<<0, 4>>, <<3, 0>>, <<0, 3>>, <<1, 3>>>>,
  <<<<0, 4>>, <<1, 4>>, <<0, 3>>, <<3, 1>>>>,
  <<<<0, 4>>, <<3, 0>>, <<0, 3>>, <<3, 1>>>>,
  <<<<2, 2>>, <<1, 2>>, <<2, 3>>, <<1, 3>>>>,
  <<<<2, 2>>, <<1, 2>>, <<2, 3>>, <<3, 1>>>>,
  <<<<2, 2>>, <<1, 2>>, <<2, 1>>, <<1, 3>>>>,
  <<<<2, 2>>, <<1, 2>>, <<2, 1>>, <<3, 1>>>>,
  <<<<2, 4>>, <<3, 4>>, <<2, 3>>, <<3, 3>>>>,
  <<<<2, 4>>, <<3, 4>>, <<2, 1>>, <<3, 3>>>>,
  <<<<2, 0>>, <<3, 4>>, <<2, 3>>, <<3, 3>>>>,
  <<<<2, 0>>, <<3, 4>>, <<2, 1>>, <<3, 3>>>>,
  <<<<2, 4>>, <<1, 4>>, <<2, 5>>, <<1, 5>>>>,
  <<<<2, 0>>, <<1, 4>>, <<2, 5>>, <<1, 5>>>>,
  <<<<2, 4>>, <<3, 0>>, <<2, 5>>, <<1, 5>>>>,
  <<<<2, 0>>, <<3, 0>>, <<2, 5>>, <<1, 5>>>>,
  <<<<0, 4>>, <<3, 4>>, <<0, 3>>, <<3, 3>>>>,
  <<<<2, 2>>, <<1, 2>>, <<2, 5>>, <<1, 5>>>>,
  <<<<0, 2>>, <<1, 2>>, <<0, 3>>, <<1, 3>>>>,
  <<<<0, 2>>, <<1, 2>>, <<0, 3>>, <<3, 1>>>>,
  <<<<2, 2>>, <<3, 2>>, <<2, 3>>, <<3, 3>>>>,
  <<<<2, 2>>, <<3, 2>>, <<2, 1>>, <<3, 3>>>>,
  <<<<2, 4>>, <<3, 4>>, <<2, 5>>, <<3, 5>>>>,
  <<<<2, 0>>, <<3, 4>>, <<2, 5>>, <<3, 5>>>>,
  <<<<0, 4>>, <<1, 4>>, <<0, 5>>, <<1, 5>>>>,
  <<<<0, 4>>, <<3, 0>>, <<0, 5>>, <<1, 5>>>>,
  <<<<0, 2>>, <<3, 2>>, <<0, 3>>, <<3, 3>>>>,
  <<<<0, 2>>, <<1, 2>>, <<0, 5>>, <<1, 5>>>>,
  <<<<0, 4>>, <<3, 4>>, <<0, 5>>, <<3, 5>>>>,
  <<<<2, 2>>, <<3, 2>>, <<2, 5>>, <<3, 5>>>>,
  <<<<0, 2>>, <<3, 2>>, <<0, 5>>, <<3, 5>>>>,
  <<<<0, 0>>, <<1, 0>>, <<0, 1>>, <<1, 1>>>>
>>

WALL_AUTOTILE_TABLE == <<
  <<<<2, 2>>, <<1, 2>>, <<2, 1>>, <<1, 1>>>>,
  <<<<0, 2>>, <<1, 2>>, <<0, 1>>, <<1, 1>>>>,
  <<<<2, 0>>, <<1, 0>>, <<2, 1>>, <<1, 1>>>>,
  <<<<0, 0>>, <<1, 0>>, <<0, 1>>, <<1, 1>>>>,
  <<<<2, 2>>, <<3, 2>>, <<2, 1>>, <<3, 1>>>>,
  <<<<0, 2>>, <<3, 2>>, <<0, 1>>, <<3, 1>>>>,
  <<<<2, 0>>, <<3, 0>>, <<2, 1>>, <<3, 1>>>>,
  <<<<0, 0>>, <<3, 0>>, <<0, 1>>, <<3, 1>>>>,
  <<<<2, 2>>, <<1, 2>>, <<2, 3>>, <<1, 3>>>>,
  <<<<0, 2>>, <<1, 2>>, <<0, 3>>, <<1, 3>>>>,
  <<<<2, 0>>, <<1, 0>>, <<2, 3>>, <<1, 3>>>>,
  <<<<0, 0>>, <<1, 0>>, <<0, 3>>, <<1, 3>>>>,
  <<<<2, 2>>, <<3, 2>>, <<2, 3>>, <<3, 3>>>>,
  <<<<0, 2>>, <<3, 2>>, <<0, 3>>, <<3, 3>>>>,
  <<<<2, 0>>, <<3, 0>>, <<2, 3>>, <<3, 3>>>>,
  <<<<0, 0>>, <<3, 0>>, <<0, 3>>, <<3, 3>>>>
>>

WATERFALL_AUTOTILE_TABLE == <<
  <<<<2, 0>>, <<1, 0>>, <<2, 1>>, <<1, 1>>>>,
  <<<<0, 0>>, <<1, 0>>, <<0, 1>>, <<1, 1>>>>,
  <<<<2, 0>>, <<3, 0>>, <<2, 1>>, <<3, 1>>>>,
  <<<<0, 0>>, <<3, 0>>, <<0, 1>>, <<3, 1>>>>
>>

\* ------------------------------------------------------------------------
\* The state of a Tilemap and of the objects it holds

VARIABLES
    mapWidth,            \* _mapWidth
    mapHeight,           \* _mapHeight
    mapData,             \* _mapData: Null, or <<the flat array>>
    flags,               \* flags: tile id -> flag byte, for the ids that have one
    origin,              \* origin: [x, y], in half pixels
    animationCount,      \* animationCount
    animationFrame,      \* animationFrame: Undefined until the first update
    horizontalWrap,      \* horizontalWrap
    verticalWrap,        \* verticalWrap
    needsRepaint,        \* _needsRepaint
    lastAnimationFrame,  \* _lastAnimationFrame
    lastStartX,          \* _lastStartX
    lastStartY,          \* _lastStartY
    lowerLayer,          \* _lowerLayer: [x, y, rects, bitmaps]
    upperLayer,          \* _upperLayer: [x, y, rects, bitmaps]
    children,            \* children: the child ids in order (0, 1: the layers)
    sprites,             \* the other children: child id -> [z, y, spriteId]
    bitmaps,             \* _bitmaps: the bitmap handles in order
    needsBitmapsUpdate,  \* _needsBitmapsUpdate
    bitmapReady,         \* per bitmap handle: isReady()
    loadListeners,       \* per bitmap handle: the listeners waiting for its load
    call,                \* the operation performed last
    args,                \* its arguments
    ret,                 \* what it returned
    threw,               \* whether it ended with an uncaught TypeError
    repainted,           \* whether the last updateTransform ran _addAllSpots
    refreshRequested,    \* history: refresh() was called since the last expansion
    expansion,           \* history: [frame, startX, startY] of the last expansion
    commits              \* history: commits to the draw layer since setBitmaps

mapVars == <<mapWidth, mapHeight, mapData, flags, horizontalWrap, verticalWrap>>

viewVars == <<origin, animationCount, animationFrame>>

repaintVars ==
    <<needsRepaint, lastAnimationFrame, lastStartX, lastStartY, lowerLayer, upperLayer>>

childVars == <<children, sprites>>

bitmapVars == <<bitmaps, needsBitmapsUpdate, bitmapReady, loadListeners>>

callVars == <<call, args, ret, threw>>

historyVars == <<repainted, refreshRequested, expansion, commits>>

vars ==
    <<mapVars, viewVars, repaintVars, childVars, bitmapVars, callVars, historyVars>>

\* null (the initial _mapData).
Null == <<>>

\* Fixed by initialize and never assigned again.
margin == 20

tileWidth == 48

tileHeight == 48

\* Math.floor(animationCount / 30): updates per animation frame.
TicksPerFrame == 30

\* ------------------------------------------------------------------------
\* Map data store

ReadMapDataNoWrap(x, y, z) ==
    IF mapData # Null
    THEN LET w == mapWidth
             h == mapHeight
             idx == (z * h + y) * w + x
             arr == mapData[1]
         IN  IF x >= 0 /\ x < w /\ y >= 0 /\ y < h
             THEN IF idx + 1 \in DOMAIN arr THEN arr[idx + 1] ELSE 0
             ELSE 0
    ELSE 0

ReadMapDataTransposed(x, y, z) ==
    IF mapData # Null
    THEN LET w == mapWidth
             h == mapHeight
             x1 == IF horizontalWrap
                   THEN (IF w = 0 THEN NaN ELSE NumberMod(x, w)) ELSE x
             y1 == IF verticalWrap
                   THEN (IF h = 0 THEN NaN ELSE NumberMod(y, h)) ELSE y
             idx == (z * w + x1) * h + y1
             arr == mapData[1]
         IN  IF x1 # NaN /\ y1 # NaN /\ x1 >= 0 /\ x1 < w /\ y1 >= 0 /\ y1 < h
             THEN IF idx + 1 \in DOMAIN arr THEN arr[idx + 1] ELSE 0
             ELSE 0
    ELSE 0

\* _readMapData.  x.mod(0) is NaN, which fails every comparison; a missing
\* entry (undefined) and a zero entry both give 0 (|| 0).
ReadMapData(x, y, z) ==
    IF mapData # Null
    THEN LET w == mapWidth
             h == mapHeight
             x1 == IF horizontalWrap
                   THEN (IF w = 0 THEN NaN ELSE NumberMod(x, w)) ELSE x
             y1 == IF verticalWrap
                   THEN (IF h = 0 THEN NaN ELSE NumberMod(y, h)) ELSE y
             idx == (z * h + y1) * w + x1
             arr == mapData[1]
         IN  IF x1 # NaN /\ y1 # NaN /\ x1 >= 0 /\ x1 < w /\ y1 >= 0 /\ y1 < h
             THEN IF idx + 1 \in DOMAIN arr THEN arr[idx + 1] ELSE 0
             ELSE 0
    ELSE 0

\* flags[tileId] & bit; a missing flag (undefined) gives 0.
FlagBit(tileId, i) == tileId \in DOMAIN flags /\ BitSet(flags[tileId], i)

IsHigherTile(tileId) == FlagBit(tileId, 4)

IsTableTile(tileId) == IsTileA2(tileId) /\ FlagBit(tileId, 7)

IsOverpassPosition(mx, my) == FALSE

\* ------------------------------------------------------------------------
\* Expansion of one tile into rect commands

\* The arguments of layer.addRect.
Rect(setNumber, sx, sy, dx, dy, w, h) == <<setNumber, sx, sy, dx, dy, w, h>>

NormalSetNumber(tileId) == IF IsTileA5(tileId) THEN 4 ELSE 5 + (tileId \div 256)

\* _addNormalTile: the rects it adds.
AddNormalTile(tileId, dx, dy) ==
    LET w == tileWidth
        h == tileHeight
        sx == (((tileId \div 128) % 2) * 8 + (tileId % 8)) * w
        sy == (((tileId % 256) \div 8) % 16) * h
    IN  << Rect(NormalSetNumber(tileId), sx, sy, dx, dy, w, h) >>

\* [0, 1, 2, 1][animationFrame % 4]: undefined while animationFrame is.
WaterSurfaceIndex ==
    IF animationFrame = Undefined
    THEN Undefined
    ELSE <<0, 1, 2, 1>>[(animationFrame % 4) + 1]

\* waterSurfaceIndex * 2
WaterSurfaceOffset ==
    IF WaterSurfaceIndex = Undefined THEN NaN ELSE WaterSurfaceIndex * 2

\* animationFrame % 3
WaterfallOffset == IF animationFrame = Undefined THEN NaN ELSE animationFrame % 3

\* Lines 479-532 of _addAutotile: the set number, the base offset, the table
\* ("floor", "wall", "waterfall") and the table flag chosen for an autotile.
AutotileParams(tileId) ==
    LET kind == GetAutotileKind(tileId)
        tx == kind % 8
        ty == kind \div 8
        none == [setNumber |-> 0, bx |-> 0, by |-> 0, table |-> "floor",
                 isTable |-> FALSE]
    IN  IF IsTileA1(tileId)
        THEN IF kind = 0
             THEN [none EXCEPT !.bx = WaterSurfaceOffset, !.by = 0]
             ELSE IF kind = 1
             THEN [none EXCEPT !.bx = WaterSurfaceOffset, !.by = 3]
             ELSE IF kind = 2
             THEN [none EXCEPT !.bx = 6, !.by = 0]
             ELSE IF kind = 3
             THEN [none EXCEPT !.bx = 6, !.by = 3]
             ELSE LET bx0 == (tx \div 4) * 8
                      by0 == ty * 6 + ((tx \div 2) % 2) * 3
                  IN  IF kind % 2 = 0
                      THEN [none EXCEPT !.bx = JsAdd(bx0, WaterSurfaceOffset),
                                        !.by = by0]
                      ELSE [none EXCEPT !.bx = bx0 + 6,
                                        !.by = JsAdd(by0, WaterfallOffset),
                                        !.table = "waterfall"]
        ELSE IF IsTileA2(tileId)
        THEN [none EXCEPT !.setNumber = 1, !.bx = tx * 2, !.by = (ty - 2) * 3,
                          !.isTable = IsTableTile(tileId)]
        ELSE IF IsTileA3(tileId)
        THEN [none EXCEPT !.setNumber = 2, !.bx = tx * 2, !.by = (ty - 6) * 2,
                          !.table = "wall"]
        ELSE IF IsTileA4(tileId)
        THEN [none EXCEPT !.setNumber = 3, !.bx = tx * 2,
                          !.by = (5 * (ty - 10) + (IF ty % 2 = 1 THEN 1 ELSE 0)) \div 2,
                          !.table = IF ty % 2 = 1 THEN "wall" ELSE "floor"]
        ELSE none

AutotileTable(name) ==
    IF name = "wall" THEN WALL_AUTOTILE_TABLE
    ELSE IF name = "waterfall" THEN WATERFALL_AUTOTILE_TABLE
    ELSE FLOOR_AUTOTILE_TABLE

\* Lines 537-554 of _addAutotile: the rects of quadrant i.
AutotileQuadrant(p, table, i, dx, dy) ==
    LET qsx == table[i + 1][1]
        qsy == table[i + 1][2]
        w1 == tileWidth \div 2
        h1 == tileHeight \div 2
        sx1 == JsMul(JsAdd(JsMul(p.bx, 2), qsx), w1)
        sy1 == JsMul(JsAdd(JsMul(p.by, 2), qsy), h1)
        dx1 == dx + (i % 2) * w1
        dy1 == dy + (i \div 2) * h1
    IN  IF p.isTable /\ (qsy = 1 \/ qsy = 5)
        THEN LET qsx2 == IF qsy = 1 THEN (4 - qsx) % 4 ELSE qsx
                 qsy2 == 3
                 sx2 == JsMul(JsAdd(JsMul(p.bx, 2), qsx2), w1)
                 sy2 == JsMul(JsAdd(JsMul(p.by, 2), qsy2), h1)
             IN  << Rect(p.setNumber, sx2, sy2, dx1, dy1, w1, h1),
                    Rect(p.setNumber, sx1, sy1, dx1, dy1 + h1 \div 2, w1, h1 \div 2) >>
        ELSE << Rect(p.setNumber, sx1, sy1, dx1, dy1, w1, h1) >>

\* _addAutotile: [err, rects].  autotileTable[shape] is undefined when the
\* shape is no index of the table, and table[0][0] then throws a TypeError
\* before any rect is added.
AddAutotile(tileId, dx, dy) ==
    LET p == AutotileParams(tileId)
        shape == GetAutotileShape(tileId)
        tbl == AutotileTable(p.table)
    IN  IF shape + 1 \in DOMAIN tbl
        THEN [err |-> FALSE,
              rects |-> AutotileQuadrant(p, tbl[shape + 1], 0, dx, dy)
                        \o AutotileQuadrant(p, tbl[shape + 1], 1, dx, dy)
                        \o AutotileQuadrant(p, tbl[shape + 1], 2, dx, dy)
                        \o AutotileQuadrant(p, tbl[shape + 1], 3, dx, dy)]
        ELSE [err |-> TRUE, rects |-> <<>>]

AddTileAlways(tileId, dx, dy) ==
    IF tileId > 0
    THEN IF IsAutotile(tileId)
         THEN AddAutotile(tileId, dx, dy)
         ELSE [err |-> FALSE, rects |-> AddNormalTile(tileId, dx, dy)]
    ELSE [err |-> FALSE, rects |-> <<>>]

\* _addTile: [err, rects].
AddTile(tileId, dx, dy) ==
    IF IsVisibleTile(tileId)
    THEN IF IsAutotile(tileId)
         THEN AddAutotile(tileId, dx, dy)
         ELSE [err |-> FALSE, rects |-> AddNormalTile(tileId, dx, dy)]
    ELSE [err |-> FALSE, rects |-> <<>>]

\* _addTableEdge: the rects it adds.
AddTableEdge(tileId, dx, dy) ==
    IF IsTileA2(tileId)
    THEN LET kind == GetAutotileKind(tileId)
             shape == GetAutotileShape(tileId)
             tx == kind % 8
             ty == kind \div 8
             setNumber == 1
             bx == tx * 2
             by == (ty - 2) * 3
             table == FLOOR_AUTOTILE_TABLE[shape + 1]
             w1 == tileWidth \div 2
             h1 == tileHeight \div 2
             edge(i) ==
                 LET qsx == table[2 + i + 1][1]
                     qsy == table[2 + i + 1][2]
                     sx1 == (bx * 2 + qsx) * w1
                     sy1 == (by * 2 + qsy) * h1 + h1 \div 2
                     dx1 == dx + (i % 2) * w1
                     dy1 == dy + (i \div 2) * h1
                 IN  Rect(setNumber, sx1, sy1, dx1, dy1, w1, h1 \div 2)
         IN  << edge(0), edge(1) >>
    ELSE <<>>

ShadowQuadrant(shadowBits, i, dx, dy) ==
    IF BitSet(shadowBits, i)
    THEN << Rect(-1, 0, 0, dx + (i % 2) * (tileWidth \div 2),
                 dy + (i \div 2) * (tileHeight \div 2),
                 tileWidth \div 2, tileHeight \div 2) >>
    ELSE <<>>

\* _addShadow: the rects it adds (shadowBits & 0x0f, one rect per set bit).
AddShadow(shadowBits, dx, dy) ==
    IF shadowBits % 16 # 0
    THEN ShadowQuadrant(shadowBits, 0, dx, dy) \o ShadowQuadrant(shadowBits, 1, dx, dy)
         \o ShadowQuadrant(shadowBits, 2, dx, dy) \o ShadowQuadrant(shadowBits, 3, dx, dy)
    ELSE <<>>


\* ------------------------------------------------------------------------
\* Expansion of one cell and of the visible window

\* The width and height of the screen (Graphics.width, Graphics.height), which
\* initialize copies to _width and _height.
GraphicsWidth == 4

GraphicsHeight == 4

\* The rects added to the two layers so far, and whether a TypeError ended
\* the expansion: [err, lower, upper].
NoRects == [err |-> FALSE, lower |-> <<>>, upper |-> <<>>]

Ok(rects) == [err |-> FALSE, rects |-> rects]

\* layer.addRect for each rect of r, unless an error was thrown before.
AddRects(acc, layer, r) ==
    IF acc.err THEN acc
    ELSE IF r.err THEN [acc EXCEPT !.err = TRUE]
    ELSE IF layer = "upper" THEN [acc EXCEPT !.upper = @ \o r.rects]
    ELSE [acc EXCEPT !.lower = @ \o r.rects]

AddSpotTileAlwaysLower(acc, tileId, dx, dy) ==
    AddRects(acc, "lower", AddTile(tileId, dx, dy))

\* _addSpotTile
AddSpotTile(acc, tileId, dx, dy) ==
    AddRects(acc, IF IsHigherTile(tileId) THEN "upper" ELSE "lower",
             AddTile(tileId, dx, dy))

\* _addSpot
AddSpot(acc, startX, startY, x, y) ==
    LET mx == startX + x
        my == startY + y
        dx == x * tileWidth
        dy == y * tileHeight
        tileId0 == ReadMapData(mx, my, 0)
        tileId1 == ReadMapData(mx, my, 1)
        tileId2 == ReadMapData(mx, my, 2)
        tileId3 == ReadMapData(mx, my, 3)
        shadowBits == ReadMapData(mx, my, 4)
        upperTileId1 == ReadMapData(mx, my - 1, 1)
        a0 == AddSpotTile(acc, tileId0, dx, dy)
        a1 == AddSpotTile(a0, tileId1, dx, dy)
        a2 == AddRects(a1, "lower", Ok(AddShadow(shadowBits, dx, dy)))
        a3 == IF IsTableTile(upperTileId1) /\ ~IsTableTile(tileId1)
                 /\ ~IsShadowingTile(tileId0)
              THEN AddRects(a2, "lower", Ok(AddTableEdge(upperTileId1, dx, dy)))
              ELSE a2
    IN  IF IsOverpassPosition(mx, my)
        THEN AddRects(AddRects(a3, "upper", AddTile(tileId2, dx, dy)),
                      "upper", AddTile(tileId3, dx, dy))
        ELSE AddSpotTile(AddSpotTile(a3, tileId2, dx, dy), tileId3, dx, dy)

\* Math.ceil(a / b) for b > 0.
CeilDiv(a, b) == (a + b - 1) \div b

TileCols == CeilDiv(GraphicsWidth + margin * 2, tileWidth) + 1

TileRows == CeilDiv(GraphicsHeight + margin * 2, tileHeight) + 1

\* The loops of _addAllSpots from cell number k on, row by row.
RECURSIVE AddSpotsFrom(_, _, _, _)
AddSpotsFrom(acc, startX, startY, k) ==
    IF k >= TileRows * TileCols \/ acc.err
    THEN acc
    ELSE AddSpotsFrom(AddSpot(acc, startX, startY, k % TileCols, k \div TileCols),
                      startX, startY, k + 1)

\* _addAllSpots: both layers cleared, then every cell of the window.
AddAllSpots(startX, startY) == AddSpotsFrom(NoRects, startX, startY, 0)

\* startX and startY of updateTransform (lines 346-349).
StartX == (CeilHalf(origin.x) - margin) \div tileWidth

StartY == (CeilHalf(origin.y) - margin) \div tileHeight

\* ------------------------------------------------------------------------
\* Children and their order

LowerLayerId == 0

UpperLayerId == 1

\* The insertion sequence number of a layer: the layers are the first two
\* drawables made (Tilemap.Layer itself is defined outside these sources).
LayerSpriteId(c) == c

\* The z, y and spriteId of child c, the layers' y being ly and uy.
ChildKey(c, ly, uy) ==
    IF c = LowerLayerId THEN [z |-> 0, y |-> ly, spriteId |-> LayerSpriteId(c)]
    ELSE IF c = UpperLayerId THEN [z |-> 4, y |-> uy, spriteId |-> LayerSpriteId(c)]
    ELSE sprites[c]

CompareChildOrderNoY(a, b) ==
    IF a.z # b.z THEN a.z - b.z ELSE a.spriteId - b.spriteId

\* _compareChildOrder
CompareChildOrder(a, b) ==
    IF a.z # b.z THEN a.z - b.z
    ELSE IF a.y # b.y THEN a.y - b.y
    ELSE a.spriteId - b.spriteId

\* Array.prototype.sort with a consistent comparator: a stable sort, here by
\* insertion of each element after the elements not greater than it.
RECURSIVE InsertChild(_, _, _, _)
InsertChild(s, c, ly, uy) ==
    IF s = <<>>
    THEN << c >>
    ELSE IF CompareChildOrder(ChildKey(s[Len(s)], ly, uy), ChildKey(c, ly, uy)) > 0
         THEN Append(InsertChild(SubSeq(s, 1, Len(s) - 1), c, ly, uy), s[Len(s)])
         ELSE Append(s, c)

RECURSIVE SortFrom(_, _, _, _, _)
SortFrom(done, s, k, ly, uy) ==
    IF k > Len(s) THEN done
    ELSE SortFrom(InsertChild(done, s[k], ly, uy), s, k + 1, ly, uy)

\* _sortChildren
SortChildren(s, ly, uy) == SortFrom(<<>>, s, 1, ly, uy)

\* ------------------------------------------------------------------------
\* Bitmaps

\* isReady
IsReady == \A i \in DOMAIN bitmaps : bitmapReady[bitmaps[i]]

\* _updateBitmaps on b = [needsBitmapsUpdate, needsRepaint, layerBitmaps,
\* commits], the list in _bitmaps being list and the readiness ready.
UpdateBitmapsUnguarded(b, list, ready) ==
    IF b.needsBitmapsUpdate
    THEN [needsBitmapsUpdate |-> FALSE, needsRepaint |-> TRUE,
          layerBitmaps |-> list, commits |-> b.commits + 1]
    ELSE b

UpdateBitmaps(b, list, ready) ==
    IF b.needsBitmapsUpdate /\ (\A i \in DOMAIN list : ready[list[i]])
    THEN [needsBitmapsUpdate |-> FALSE, needsRepaint |-> TRUE,
          layerBitmaps |-> list, commits |-> b.commits + 1]
    ELSE b

\* The listeners of a loaded bitmap, called one after the other.
RECURSIVE CallLoadListeners(_, _, _, _)
CallLoadListeners(b, n, list, ready) ==
    IF n = 0 THEN b
    ELSE CallLoadListeners(UpdateBitmaps(b, list, ready), n - 1, list, ready)

\* ------------------------------------------------------------------------
\* Inputs

\* Updates modelled (animationCount itself is unbounded): in the repaint
\* controller, and where the frame only has to be defined.
MaxAnimationCount == 31

MaxFrames == 1

\* Updates while single tiles are drawn: animation frames 0 to 4.
MaxWaterCount == 120

\* Children added besides the two layers.
MaxSprites == 2

\* Bitmap handles, entries of a bitmap list and listeners waiting on one bitmap.
MaxBitmaps == 2

MaxBitmapList == 2

MaxListeners == 2

\* Map sizes and coordinates read in the map data store.
MaxMapSize == 2

MaxCoord == 3

\* Autotile kinds composed with makeAutotileId (128 kinds lie below TILE_ID_MAX).
MaxKind == 130

\* Scroll origins <<x, y>> in half pixels: x = 0 gives startX -1; 19.5 and
\* 20.5 px give startX 0 with layer offsets -20 and -21; y = 24 px gives startY 0.
Origins == {<<0, 0>>, <<39, 0>>, <<41, 0>>, <<0, 48>>}

\* 2 x 2 maps; the cells of a plane in the order (0,0), (1,0), (0,1), (1,1).
MapZero == [w |-> 2, h |-> 2, data |-> [i \in 1..20 |-> 0]]

\* Water, an A5 tile, a waterfall, a B tile; a table tile above an empty cell,
\* an id >= TILE_ID_MAX; an id of the unused gap, a wall top; shadows.
MapMixed ==
    [w |-> 2, h |-> 2,
     data |-> << 2048, 1536, 2288, 1,
                 2820, 0, 0, 8192,
                 1030, 0, 5888, 0,
                 0, 9000, 0, 3,
                 0, 5, 15, 0 >>]

\* A roof (A3) id whose shape, 16, is no index of the wall table.
MapBroken ==
    [w |-> 2, h |-> 2,
     data |-> << 1, 4368, 0, 0,  0, 0, 0, 0,  0, 0, 0, 0,  0, 0, 0, 0,  0, 0, 0, 0 >>]

\* An array shorter than 5 * width * height.
MapShort == [w |-> 2, h |-> 2, data |-> << 2048, 0, 7 >>]

\* Ids >= TILE_ID_MAX in planes 0..3, shadow values without low bits.
MapOver ==
    [w |-> 2, h |-> 2,
     data |-> << 8192, 0, 0, 9000,  0, 8192, 0, 0,  9000, 0, 0, 0,
                 0, 0, 8200, 0,  0, 16, 0, 8208 >>]

\* A shadow value >= TILE_ID_MAX with bit 0 set.
MapShadowOver ==
    [w |-> 2, h |-> 2,
     data |-> << 0, 0, 0, 0,  0, 0, 0, 0,  0, 0, 0, 0,  0, 0, 0, 0,  8193, 0, 0, 0 >>]

Maps == {MapMixed, MapBroken}

PlaneMaps == {MapZero, MapMixed, MapOver, MapShadowOver}

\* The origins that differ in y, for the order of the children.
SortOrigins == {<<0, 0>>, <<0, 48>>}

\* Flat arrays for a w x h map: every entry distinct and not 0, one with the
\* entries of the first row of plane 0 zero, one holding plane 0 only.
FullData(w, h) == [i \in 1..(5 * w * h) |-> i]

HoledData(w, h) == [i \in 1..(5 * w * h) |-> IF i <= w THEN 0 ELSE i]

ShortData(w, h) == [i \in 1..(w * h) |-> i]

\* The ids compared with t by isSameKindTile: its neighbours, the ids one kind
\* away, and the ends of the ranges.
Partners(t) ==
    {t, t - 1, t + 1, t - 47, t + 47, t - 48, t + 48, 0, 2047, 2048, 2095, 2096, 8191}
        \cap (0..(TILE_ID_MAX - 1))

NoFlags == <<>>

\* 2820 is a table tile; 1, 5888 and 8192 are higher tiles.
SomeFlags == (2820 :> 128) @@ (1 :> 16) @@ (5888 :> 16) @@ (8192 :> 16)

FlagChoices == {NoFlags, SomeFlags}

\* The <<z, y>> a sprite can have: at the z of the lower layer at two heights
\* below it, and at the z of the upper layer at the y that layer has at the
\* origin 0.
SpritePlaces == {<<0, 5>>, <<0, 10>>, <<4, -48>>}

SpriteIds == {2, 3}

BitmapIds == 1..MaxBitmaps

\* Lists of bitmaps, a bitmap possibly several times in one, in the order of
\* the handles.
BitmapLists ==
    {l \in UNION {[1..n -> BitmapIds] : n \in 0..MaxBitmapList} :
        \A i \in DOMAIN l : \A j \in DOMAIN l : i < j => l[i] <= l[j]}

\* ------------------------------------------------------------------------
\* initialize

NewLayer == [x |-> 0, y |-> 0, rects |-> <<>>, bitmaps |-> <<>>]

Init ==
    /\ mapWidth = 0
    /\ mapHeight = 0
    /\ mapData = Null
    /\ flags = NoFlags
    /\ origin = [x |-> 0, y |-> 0]
    /\ animationCount = 0
    /\ animationFrame = Undefined
    /\ horizontalWrap = FALSE
    /\ verticalWrap = FALSE
    /\ needsRepaint = TRUE
    /\ lastAnimationFrame = Undefined
    /\ lastStartX = Undefined
    /\ lastStartY = Undefined
    /\ lowerLayer = NewLayer
    /\ upperLayer = NewLayer
    /\ children = << LowerLayerId, UpperLayerId >>
    /\ sprites = <<>>
    /\ bitmaps = <<>>
    /\ needsBitmapsUpdate = FALSE
    /\ bitmapReady = [b \in BitmapIds |-> FALSE]
    /\ loadListeners = [b \in BitmapIds |-> 0]
    /\ call = "initialize"
    /\ args = <<>>
    /\ ret = 0
    /\ threw = FALSE
    /\ repainted = FALSE
    /\ refreshRequested = TRUE
    /\ expansion = [frame |-> Undefined, startX |-> Undefined, startY |-> Undefined]
    /\ commits = [listSet |-> FALSE, count |-> 0, repaintDue |-> FALSE]

\* ------------------------------------------------------------------------
\* Operations.  An uncaught TypeError ends the run: nothing in the source
\* catches it, so no operation follows one that threw.

Returned(name, a) ==
    /\ call' = name
    /\ args' = a
    /\ ret' = 0
    /\ threw' = FALSE

\* setData
SetData(m) ==
    /\ ~threw
    /\ mapWidth' = m.w
    /\ mapHeight' = m.h
    /\ mapData' = << m.data >>
    /\ Returned("setData", <<m.w, m.h>>)
    /\ UNCHANGED <<flags, horizontalWrap, verticalWrap, viewVars, repaintVars,
                   childVars, bitmapVars, historyVars>>

\* An assignment to flags.
SetFlags(f) ==
    /\ ~threw
    /\ flags' = f
    /\ Returned("flags", <<>>)
    /\ UNCHANGED <<mapWidth, mapHeight, mapData, horizontalWrap, verticalWrap,
                   viewVars, repaintVars, childVars, bitmapVars, historyVars>>

\* Assignments to horizontalWrap and verticalWrap.
SetWrap(h, v) ==
    /\ ~threw
    /\ horizontalWrap' = h
    /\ verticalWrap' = v
    /\ Returned("wrap", <<>>)
    /\ UNCHANGED <<mapWidth, mapHeight, mapData, flags, viewVars, repaintVars,
                   childVars, bitmapVars, historyVars>>

\* An assignment to origin.
SetOrigin(ox, oy) ==
    /\ ~threw
    /\ origin' = [x |-> ox, y |-> oy]
    /\ Returned("origin", <<ox, oy>>)
    /\ UNCHANGED <<mapVars, animationCount, animationFrame, repaintVars, childVars,
                   bitmapVars, historyVars>>

\* update: the counter, the frame, and update of each child that has one
\* (a sprite may move to any y).
Update(maxCount) ==
    /\ ~threw
    /\ animationCount < maxCount
    /\ animationCount' = animationCount + 1
    /\ animationFrame' = (animationCount + 1) \div TicksPerFrame
    /\ \E ys \in [DOMAIN sprites -> {p[2] : p \in SpritePlaces}] :
           /\ \A c \in DOMAIN sprites : <<sprites[c].z, ys[c]>> \in SpritePlaces
           /\ sprites' = [c \in DOMAIN sprites |-> [sprites[c] EXCEPT !.y = ys[c]]]
    /\ Returned("update", <<>>)
    /\ UNCHANGED <<mapVars, origin, repaintVars, children, bitmapVars, historyVars>>

\* refresh
Refresh ==
    /\ ~threw
    /\ needsRepaint' = TRUE
    /\ refreshRequested' = TRUE
    /\ Returned("refresh", <<>>)
    /\ UNCHANGED <<mapVars, viewVars, lastAnimationFrame, lastStartX, lastStartY,
                   lowerLayer, upperLayer, childVars, bitmapVars, repainted,
                   expansion, commits>>

UpdateTransformIgnoringFrame ==
    /\ ~threw
    /\ LET ox == CeilHalf(origin.x)
           oy == CeilHalf(origin.y)
           lx == StartX * tileWidth - ox
           ly == StartY * tileHeight - oy
           need == \/ needsRepaint
                   \/ lastStartX # StartX
                   \/ lastStartY # StartY
       IN  \E exp \in {IF need THEN AddAllSpots(StartX, StartY) ELSE NoRects} :
           LET failed == need /\ exp.err IN
           /\ IF need
              THEN /\ lastAnimationFrame' = animationFrame
                   /\ lastStartX' = StartX
                   /\ lastStartY' = StartY
                   /\ lowerLayer' = [lowerLayer EXCEPT !.x = lx, !.y = ly,
                                                       !.rects = exp.lower]
                   /\ upperLayer' = [upperLayer EXCEPT !.x = lx, !.y = ly,
                                                       !.rects = exp.upper]
                   /\ needsRepaint' = IF exp.err THEN needsRepaint ELSE FALSE
                   /\ refreshRequested' = FALSE
                   /\ expansion' = [frame |-> animationFrame, startX |-> StartX,
                                    startY |-> StartY]
              ELSE /\ lowerLayer' = [lowerLayer EXCEPT !.x = lx, !.y = ly]
                   /\ upperLayer' = [upperLayer EXCEPT !.x = lx, !.y = ly]
                   /\ UNCHANGED <<needsRepaint, lastAnimationFrame, lastStartX,
                                  lastStartY, refreshRequested, expansion>>
           /\ repainted' = need
           /\ commits' = [commits EXCEPT !.repaintDue = @ /\ failed]
           /\ children' = IF failed THEN children ELSE SortChildren(children, ly, ly)
           /\ call' = "updateTransform"
           /\ args' = <<>>
           /\ ret' = 0
           /\ threw' = failed
    /\ UNCHANGED <<mapVars, viewVars, sprites, bitmapVars>>

\* updateTransform
UpdateTransform ==
    /\ ~threw
    /\ LET ox == CeilHalf(origin.x)
           oy == CeilHalf(origin.y)
           lx == StartX * tileWidth - ox
           ly == StartY * tileHeight - oy
           need == \/ needsRepaint
                   \/ lastAnimationFrame # animationFrame
                   \/ lastStartX # StartX
                   \/ lastStartY # StartY
       IN  \E exp \in {IF need THEN AddAllSpots(StartX, StartY) ELSE NoRects} :
           LET failed == need /\ exp.err IN
           /\ IF need
              THEN /\ lastAnimationFrame' = animationFrame
                   /\ lastStartX' = StartX
                   /\ lastStartY' = StartY
                   /\ lowerLayer' = [lowerLayer EXCEPT !.x = lx, !.y = ly,
                                                       !.rects = exp.lower]
                   /\ upperLayer' = [upperLayer EXCEPT !.x = lx, !.y = ly,
                                                       !.rects = exp.upper]
                   /\ needsRepaint' = IF exp.err THEN needsRepaint ELSE FALSE
                   /\ refreshRequested' = FALSE
                   /\ expansion' = [frame |-> animationFrame, startX |-> StartX,
                                    startY |-> StartY]
              ELSE /\ lowerLayer' = [lowerLayer EXCEPT !.x = lx, !.y = ly]
                   /\ upperLayer' = [upperLayer EXCEPT !.x = lx, !.y = ly]
                   /\ UNCHANGED <<needsRepaint, lastAnimationFrame, lastStartX,
                                  lastStartY, refreshRequested, expansion>>
           /\ repainted' = need
           /\ commits' = [commits EXCEPT !.repaintDue = @ /\ failed]
           /\ children' = IF failed THEN children ELSE SortChildren(children, ly, ly)
           /\ call' = "updateTransform"
           /\ args' = <<>>
           /\ ret' = 0
           /\ threw' = failed
    /\ UNCHANGED <<mapVars, viewVars, sprites, bitmapVars>>

\* addChild of a sprite with the given z, y and spriteId.
AddChild(z, y, id) ==
    /\ ~threw
    /\ Len(children) < 2 + MaxSprites
    /\ LET c == Len(children)
       IN  /\ children' = Append(children, c)
           /\ sprites' = (c :> [z |-> z, y |-> y, spriteId |-> id]) @@ sprites
    /\ Returned("addChild", <<z, y, id>>)
    /\ UNCHANGED <<mapVars, viewVars, repaintVars, bitmapVars, historyVars>>

\* The number of entries of list that are bitmap b.
Occurrences(list, b) == Cardinality({i \in DOMAIN list : list[i] = b})

\* setBitmaps
SetBitmaps(list) ==
    /\ ~threw
    /\ \A b \in BitmapIds :
           bitmapReady[b] \/ loadListeners[b] + Occurrences(list, b) <= MaxListeners
    /\ LET b0 == [needsBitmapsUpdate |-> TRUE, needsRepaint |-> needsRepaint,
                  layerBitmaps |-> lowerLayer.bitmaps, commits |-> 0]
           b1 == UpdateBitmaps(b0, list, bitmapReady)
       IN  /\ bitmaps' = list
           /\ loadListeners' =
                  [b \in BitmapIds |->
                      IF bitmapReady[b] THEN loadListeners[b]
                      ELSE loadListeners[b] + Occurrences(list, b)]
           /\ needsBitmapsUpdate' = b1.needsBitmapsUpdate
           /\ needsRepaint' = b1.needsRepaint
           /\ lowerLayer' = [lowerLayer EXCEPT !.bitmaps = b1.layerBitmaps]
           /\ commits' = [listSet |-> TRUE, count |-> b1.commits,
                          repaintDue |-> commits.repaintDue \/ b1.commits > 0]
    /\ Returned("setBitmaps", <<>>)
    /\ UNCHANGED <<mapVars, viewVars, lastAnimationFrame, lastStartX, lastStartY,
                   upperLayer, childVars, bitmapReady, repainted, refreshRequested,
                   expansion>>

\* Bitmap b finishes loading: it becomes ready and calls its load listeners.
BitmapLoad(b) ==
    /\ ~threw
    /\ ~bitmapReady[b]
    /\ LET ready == [bitmapReady EXCEPT ![b] = TRUE]
           b0 == [needsBitmapsUpdate |-> needsBitmapsUpdate,
                  needsRepaint |-> needsRepaint,
                  layerBitmaps |-> lowerLayer.bitmaps, commits |-> commits.count]
           b1 == CallLoadListeners(b0, loadListeners[b], bitmaps, ready)
       IN  /\ bitmapReady' = ready
           /\ loadListeners' = [loadListeners EXCEPT ![b] = 0]
           /\ needsBitmapsUpdate' = b1.needsBitmapsUpdate
           /\ needsRepaint' = b1.needsRepaint
           /\ lowerLayer' = [lowerLayer EXCEPT !.bitmaps = b1.layerBitmaps]
           /\ commits' = [commits EXCEPT !.count = b1.commits,
                              !.repaintDue = @ \/ b1.commits > commits.count]
    /\ Returned("load", <<b>>)
    /\ UNCHANGED <<mapVars, viewVars, lastAnimationFrame, lastStartX, lastStartY,
                   upperLayer, childVars, bitmaps, repainted, refreshRequested,
                   expansion>>

\* ------------------------------------------------------------------------
\* The repaint controller: frames, scrolling, refresh and map loads.

NextRepaint ==
    \/ Update(MaxAnimationCount)
    \/ Refresh
    \/ \E o \in Origins : SetOrigin(o[1], o[2])
    \/ \E m \in Maps : SetData(m)
    \/ UpdateTransform

SpecRepaint == Init /\ [][NextRepaint]_vars

\* ------------------------------------------------------------------------
\* The expansion: a map is loaded (data, flags, wrap settings) before the
\* first frame, then frames scroll, animate and repaint it.

BeforeFirstFrame == lastStartX = Undefined

NextExpand ==
    \/ \E m \in PlaneMaps : BeforeFirstFrame /\ SetData(m)
    \/ \E f \in FlagChoices : BeforeFirstFrame /\ SetFlags(f)
    \/ \E h \in BOOLEAN, v \in BOOLEAN : BeforeFirstFrame /\ SetWrap(h, v)
    \/ Update(MaxFrames)
    \/ Refresh
    \/ \E o \in Origins : SetOrigin(o[1], o[2])
    \/ UpdateTransform

SpecExpand == Init /\ [][NextExpand]_vars

\* ------------------------------------------------------------------------
\* The map data store read on its own: any map size, array and wrap setting,
\* then one read.

InitRead ==
    /\ mapWidth \in 0..MaxMapSize
    /\ mapHeight \in 0..MaxMapSize
    /\ mapData \in {Null, << FullData(mapWidth, mapHeight) >>,
                    << HoledData(mapWidth, mapHeight) >>,
                    << ShortData(mapWidth, mapHeight) >>}
    /\ horizontalWrap \in BOOLEAN
    /\ verticalWrap \in BOOLEAN
    /\ flags = NoFlags
    /\ origin = [x |-> 0, y |-> 0]
    /\ animationCount = 0
    /\ animationFrame = Undefined
    /\ needsRepaint = TRUE
    /\ lastAnimationFrame = Undefined
    /\ lastStartX = Undefined
    /\ lastStartY = Undefined
    /\ lowerLayer = NewLayer
    /\ upperLayer = NewLayer
    /\ children = << LowerLayerId, UpperLayerId >>
    /\ sprites = <<>>
    /\ bitmaps = <<>>
    /\ needsBitmapsUpdate = FALSE
    /\ bitmapReady = [b \in BitmapIds |-> FALSE]
    /\ loadListeners = [b \in BitmapIds |-> 0]
    /\ call = "setData"
    /\ args = <<>>
    /\ ret = 0
    /\ threw = FALSE
    /\ repainted = FALSE
    /\ refreshRequested = TRUE
    /\ expansion = [frame |-> Undefined, startX |-> Undefined, startY |-> Undefined]
    /\ commits = [listSet |-> FALSE, count |-> 0, repaintDue |-> FALSE]

\* A call of _readMapData(x, y, z).
CallReadMapData(x, y, z) ==
    /\ call = "setData"
    /\ call' = "readMapData"
    /\ args' = <<x, y, z>>
    /\ ret' = ReadMapData(x, y, z)
    /\ UNCHANGED <<mapVars, viewVars, repaintVars, childVars, bitmapVars, threw,
                   historyVars>>

NextRead ==
    call = "setData" /\ \E x \in (0 - MaxCoord)..MaxCoord, y \in (0 - MaxCoord)..MaxCoord, z \in 0..4 :
        CallReadMapData(x, y, z)

SpecRead == InitRead /\ [][NextRead]_vars

\* ------------------------------------------------------------------------
\* The tile type checkers called on their own, on a new tilemap.

CallPure(name, a, r) ==
    /\ call' = name
    /\ args' = a
    /\ ret' = r
    /\ UNCHANGED <<mapVars, viewVars, repaintVars, childVars, bitmapVars, threw,
                   historyVars>>

\* isTileA1 .. isTileA5 of one id, in this order.
CallBanks(t) ==
    CallPure("banks", <<t>>,
             << IsTileA1(t), IsTileA2(t), IsTileA3(t), IsTileA4(t), IsTileA5(t) >>)

\* makeAutotileId, then getAutotileKind and getAutotileShape of the id made:
\* <<id, kind, shape>>.
CallMakeAutotileId(k, sh) ==
    CallPure("makeAutotileId", <<k, sh>>,
             << MakeAutotileId(k, sh), GetAutotileKind(MakeAutotileId(k, sh)),
                GetAutotileShape(MakeAutotileId(k, sh)) >>)

\* getAutotileKind and getAutotileShape, then makeAutotileId of the two:
\* <<kind, shape, id>>.
CallKindShape(t) ==
    CallPure("kindShape", <<t>>,
             << GetAutotileKind(t), GetAutotileShape(t),
                MakeAutotileId(GetAutotileKind(t), GetAutotileShape(t)) >>)

\* isSameKindTile(t1, t2), isSameKindTile(t2, t1) and isSameKindTile(t1, t1).
CallIsSameKindTile(t1, t2) ==
    CallPure("isSameKindTile", <<t1, t2>>,
             << IsSameKindTile(t1, t2), IsSameKindTile(t2, t1),
                IsSameKindTile(t1, t1) >>)

\* _addTile(layer, t, 0, 0): whether it threw, and the rects added.
CallAddTile(t) == CallPure("addTile", <<t>>, AddTile(t, 0, 0))

\* isFloorTypeAutotile, isWallTypeAutotile and isWaterfallTypeAutotile of one
\* id, and the table _addAutotile selects for it.
CallAutotileType(t) ==
    CallPure("autotileType", <<t>>,
             << IsFloorTypeAutotile(t), IsWallTypeAutotile(t),
                IsWaterfallTypeAutotile(t), AutotileParams(t).table >>)

\* No checker has been called yet.
Idle == call \in {"initialize", "flags"}

NextTile ==
    \/ \E f \in FlagChoices : call = "initialize" /\ SetFlags(f)
    \/ Idle /\ \E t \in 0..(TILE_ID_MAX - 1) : CallBanks(t)
    \/ Idle /\ \E k \in 0..MaxKind, sh \in 0..(ShapesPerKind - 1) :
                   CallMakeAutotileId(k, sh)
    \/ Idle /\ \E t \in (TILE_ID_A1 - 1)..MakeAutotileId(MaxKind, ShapesPerKind - 1) :
                   CallKindShape(t)
    \/ Idle /\ \E t1 \in 0..(TILE_ID_MAX - 1) : \E t2 \in Partners(t1) :
                   CallIsSameKindTile(t1, t2)
    \/ Idle /\ \E t \in 0..TILE_ID_MAX : CallAddTile(t)
    \/ Idle /\ \E t \in TILE_ID_A1..(TILE_ID_MAX - 1) : CallAutotileType(t)

SpecTile == Init /\ [][NextTile]_vars

\* ------------------------------------------------------------------------
\* The order of the children: sprites are added and move, frames sort.

NextSort ==
    \/ \E p \in SpritePlaces, id \in SpriteIds : AddChild(p[1], p[2], id)
    \/ Update(MaxFrames)
    \/ \E o \in SortOrigins : SetOrigin(o[1], o[2])
    \/ UpdateTransform

SpecSort == Init /\ [][NextSort]_vars

\* ------------------------------------------------------------------------
\* The tileset bitmaps: lists are set, bitmaps finish loading, frames run.
\* A bitmap may be loaded before the tilemap is made.

InitBitmaps ==
    /\ mapWidth = 0
    /\ mapHeight = 0
    /\ mapData = Null
    /\ flags = NoFlags
    /\ origin = [x |-> 0, y |-> 0]
    /\ animationCount = 0
    /\ animationFrame = Undefined
    /\ horizontalWrap = FALSE
    /\ verticalWrap = FALSE
    /\ needsRepaint = TRUE
    /\ lastAnimationFrame = Undefined
    /\ lastStartX = Undefined
    /\ lastStartY = Undefined
    /\ lowerLayer = NewLayer
    /\ upperLayer = NewLayer
    /\ children = << LowerLayerId, UpperLayerId >>
    /\ sprites = <<>>
    /\ bitmaps = <<>>
    /\ needsBitmapsUpdate = FALSE
    /\ bitmapReady \in [BitmapIds -> BOOLEAN]
    /\ loadListeners = [b \in BitmapIds |-> 0]
    /\ call = "initialize"
    /\ args = <<>>
    /\ ret = 0
    /\ threw = FALSE
    /\ repainted = FALSE
    /\ refreshRequested = TRUE
    /\ expansion = [frame |-> Undefined, startX |-> Undefined, startY |-> Undefined]
    /\ commits = [listSet |-> FALSE, count |-> 0, repaintDue |-> FALSE]

NextBitmaps ==
    \/ \E list \in BitmapLists : SetBitmaps(list)
    \/ \E b \in BitmapIds : BitmapLoad(b)
    \/ UpdateTransform

SpecBitmaps == InitBitmaps /\ [][NextBitmaps]_vars

\* ------------------------------------------------------------------------
\* One cell expanded on its own: a map one cell wide and two high is loaded
\* with its flags and wrap settings, then _addSpot is called on one cell.

\* Plane-0 tiles of the lower cell: none, a B tile, water, a waterfall id
\* whose shape (4) is no index of the waterfall table, a roof, a table tile.
SpotTiles0 == {0, 1, 2048, 2292, 4352, 2820}

\* Plane-1 tiles: none, an A2 tile with the table flag, an A2 tile without.
SpotTiles1 == {0, 2820, 2816}

SpotShadows == {0, 3}

\* The map with tile up1 in plane 1 of the cell (0, 0) and t0, t1 and the
\* shadow bits sh in the cell (0, 1) below it.
SpotMap(t0, t1, up1, sh) ==
    [w |-> 1, h |-> 2, data |-> << 0, t0, up1, t1, 0, 0, 0, 0, 0, sh >>]

SpotMaps ==
    {SpotMap(t0, t1, up1, sh) :
        t0 \in SpotTiles0, t1 \in SpotTiles1, up1 \in SpotTiles1, sh \in SpotShadows}

\* _addSpot(0, 0, x, y) on cleared layers: the rects of the two layers, and
\* whether the call threw.
CallAddSpot(x, y) ==
    /\ ~threw
    /\ \E r \in {AddSpot(NoRects, 0, 0, x, y)} :
           /\ ret' = << r.lower, r.upper >>
           /\ threw' = r.err
    /\ call' = "addSpot"
    /\ args' = <<x, y>>
    /\ UNCHANGED <<mapVars, viewVars, repaintVars, childVars, bitmapVars,
                   historyVars>>

NextSpot ==
    \/ call # "addSpot" /\ \E m \in SpotMaps : SetData(m)
    \/ call # "addSpot" /\ \E f \in FlagChoices : SetFlags(f)
    \/ call # "addSpot" /\ \E h \in BOOLEAN, v \in BOOLEAN : SetWrap(h, v)
    \/ call # "addSpot" /\ Update(MaxFrames)
    \/ call # "addSpot" /\ mapData # Null /\ \E y \in 0..1 : CallAddSpot(0, y)

SpecSpot == Init /\ [][NextSpot]_vars

\* ------------------------------------------------------------------------
\* One tile drawn on its own: flags are set, frames pass, then _addSpotTile
\* is called with one tile id.

\* The ids drawn: every id of bank A1, whose source moves with the frame; of
\* each other kind the first shape, the last shapes of the wall table and of
\* the floor table and the shape after the wall table's last; and ids that
\* are no autotiles.
TileSamples ==
    (TILE_ID_A1..(TILE_ID_A2 - 1))
        \cup {MakeAutotileId(k, sh) : k \in 16..127, sh \in {0, 15, 16, 47}}
        \cup {0, 1, 1030, 1536, 2047, 8192}

\* _addSpotTile(t, 0, 0) on cleared layers: the rects of the two layers, and
\* whether the call threw.
CallAddSpotTile(t) ==
    /\ ~threw
    /\ \E r \in {AddSpotTile(NoRects, t, 0, 0)} :
           /\ ret' = << r.lower, r.upper >>
           /\ threw' = r.err
    /\ call' = "addSpotTile"
    /\ args' = <<t>>
    /\ UNCHANGED <<mapVars, viewVars, repaintVars, childVars, bitmapVars,
                   historyVars>>

NextAutotile ==
    \/ call = "initialize" /\ \E f \in FlagChoices : SetFlags(f)
    \/ call # "addSpotTile" /\ Update(MaxWaterCount)
    \/ call # "addSpotTile" /\ \E t \in TileSamples : CallAddSpotTile(t)

SpecAutotile == Init /\ [][NextAutotile]_vars

\* ------------------------------------------------------------------------
\* Properties

\* The reasons updateTransform has to expand again, in terms of the history:
\* a refresh since the last expansion, or a frame or a start other than the
\* one the last expansion used.
Invalidated ==
    \/ refreshRequested
    \/ animationFrame # expansion.frame
    \/ StartX # expansion.startX
    \/ StartY # expansion.startY

RectsUnchanged ==
    /\ lowerLayer'.rects = lowerLayer.rects
    /\ upperLayer'.rects = upperLayer.rects

\* C1: over update, refresh, scroll-origin changes, map loads and
\* updateTransform calls, an updateTransform call clears both layers and
\* expands the whole visible window again if and only if a refresh was
\* requested since the last expansion, or animationFrame, startX or startY
\* differs from the value at the last expansion; otherwise it leaves the rects
\* of both layers as they are, and so does the second of two consecutive
\* updateTransform calls.
C1_RepaintIffInvalidated ==
    [][call' = "updateTransform" =>
          /\ repainted' <=> Invalidated
          /\ repainted' =>
                 /\ lowerLayer'.rects = AddAllSpots(StartX, StartY).lower
                 /\ upperLayer'.rects = AddAllSpots(StartX, StartY).upper
          /\ ~repainted' => RectsUnchanged
          /\ call = "updateTransform" => RectsUnchanged]_vars

\* A frame that reused the rects of an earlier expansion of a map with tiles,
\* after the animation frame had advanced at least once.
C1_MemoisedFrame ==
    /\ call = "updateTransform"
    /\ ~repainted
    /\ ~threw
    /\ lowerLayer.rects # <<>>
    /\ animationCount > TicksPerFrame

\* C2: with horizontalWrap enabled _readMapData(x, y, z) returns what
\* _readMapData(x mod width, y, z) returns, mod being the mathematical modulo,
\* for negative x and for x >= width alike; likewise for y, height and
\* verticalWrap.
C2_WrapReadsModulo ==
    call = "readMapData" =>
        /\ (horizontalWrap /\ mapWidth > 0) =>
               ret = ReadMapData(args[1] % mapWidth, args[2], args[3])
        /\ (verticalWrap /\ mapHeight > 0) =>
               ret = ReadMapData(args[1], args[2] % mapHeight, args[3])

\* A read at a negative x and a y beyond the height, both wrapped, that
\* returned an entry of the array.
C2_WrappedRead ==
    /\ call = "readMapData"
    /\ horizontalWrap
    /\ verticalWrap
    /\ args[1] < 0
    /\ args[2] >= mapHeight
    /\ ret # 0

\* C3: with both wrap flags off _readMapData(x, y, z) returns 0 for every
\* plane when x is outside [0, width) or y outside [0, height), when no map
\* data is set and when the array has no entry at the index; otherwise it
\* returns the entry at index (z * height + y) * width + x.
C3_ReadWithoutWrap ==
    (call = "readMapData" /\ ~horizontalWrap /\ ~verticalWrap) =>
        LET x == args[1]
            y == args[2]
            z == args[3]
            idx == (z * mapHeight + y) * mapWidth + x
        IN  ret = IF \/ mapData = Null
                     \/ x < 0 \/ x >= mapWidth
                     \/ y < 0 \/ y >= mapHeight
                  THEN 0
                  ELSE IF idx + 1 \in DOMAIN mapData[1]
                       THEN mapData[1][idx + 1]
                       ELSE 0

\* A read without wrap of an entry of the shadow plane at x = 1, y = 1.
C3_EntryRead ==
    /\ call = "readMapData"
    /\ ~horizontalWrap
    /\ ~verticalWrap
    /\ args = <<1, 1, 4>>
    /\ ret # 0

\* Membership in a simple bank B, C, D or E: 256 ids per bank, ids 0..1023.
SimpleBank(t) == t >= TILE_ID_B /\ t < TILE_ID_E + (TILE_ID_C - TILE_ID_B)

\* How many of isTileA1 .. isTileA5 (as returned) and the simple banks hold.
BanksHolding ==
    Cardinality({i \in 1..5 : ret[i]}) + (IF SimpleBank(args[1]) THEN 1 ELSE 0)

\* C4 as stated: for every id in [0, TILE_ID_MAX) exactly one of isTileA1 ..
\* isTileA5 or membership in a simple bank B/C/D/E (ids 0..1023) holds.
C4_ExactlyOneBank == call = "banks" => BanksHolding = 1

\* C4, amended: the bank predicates and the simple banks are mutually
\* exclusive over [0, TILE_ID_MAX); exactly one holds for every id outside
\* the unused gap [1024, 1536), and none holds for an id in the gap.
C4_ExactlyOneBankOutsideGap ==
    call = "banks" =>
        IF args[1] >= TILE_ID_E + (TILE_ID_C - TILE_ID_B) /\ args[1] < TILE_ID_A5
        THEN BanksHolding = 0
        ELSE BanksHolding = 1

\* The predicates called on the last id of bank A5, which only isTileA5 holds.
C4_LastOfA5 ==
    /\ call = "banks"
    /\ args[1] = TILE_ID_A1 - 1
    /\ ret = <<FALSE, FALSE, FALSE, FALSE, TRUE>>

\* C5: getAutotileKind(makeAutotileId(k, s)) = k and
\* getAutotileShape(makeAutotileId(k, s)) = s for every kind k >= 0 and shape
\* s in [0, 48); and makeAutotileId(getAutotileKind(t), getAutotileShape(t)) = t
\* for every autotile id t >= TILE_ID_A1.
C5_AutotileRoundTrip ==
    /\ call = "makeAutotileId" => (ret[2] = args[1] /\ ret[3] = args[2])
    /\ (call = "kindShape" /\ args[1] >= TILE_ID_A1) => ret[3] = args[1]

\* The last shape of the last kind below TILE_ID_MAX, made and taken apart.
C5_LastAutotile ==
    /\ call = "makeAutotileId"
    /\ args = <<127, 47>>
    /\ ret = <<TILE_ID_MAX - 1, 127, 47>>

\* C6: isSameKindTile is reflexive and symmetric over [0, TILE_ID_MAX); for
\* two autotile ids it is true exactly when their kinds are equal, for two
\* ids below TILE_ID_A1 exactly when the ids are equal.
C6_SameKindTile ==
    call = "isSameKindTile" =>
        LET a == args[1]
            b == args[2]
        IN  /\ ret[3]
            /\ ret[1] = ret[2]
            /\ (a >= TILE_ID_A1 /\ b >= TILE_ID_A1) =>
                   (ret[1] <=> ((a - TILE_ID_A1) \div ShapesPerKind
                                    = (b - TILE_ID_A1) \div ShapesPerKind))
            /\ (a < TILE_ID_A1 /\ b < TILE_ID_A1) => (ret[1] <=> a = b)

\* Two different autotile ids of one kind, found to be of the same kind.
C6_SameKindDifferentShape ==
    /\ call = "isSameKindTile"
    /\ args[1] # args[2]
    /\ args[1] >= TILE_ID_A1
    /\ ret[1]

\* Every id of the map data lies in [0, TILE_ID_MAX).
MapIdsInRange ==
    mapData # Null =>
        \A i \in DOMAIN mapData[1] : mapData[1][i] \in 0..(TILE_ID_MAX - 1)

\* C7: expanding a tile never fails, whatever id in [0, TILE_ID_MAX) the map
\* holds: no updateTransform over such a map raises an error.
C7_ExpansionNeverFails == (call = "updateTransform" /\ MapIdsInRange) => ~threw

EmptyOrOver(v) == v = 0 \/ v >= TILE_ID_MAX

\* The plane of the entry at index i (from 1) of the flat array.
PlaneOfEntry(i) ==
    IF mapWidth * mapHeight = 0 THEN 0 ELSE (i - 1) \div (mapWidth * mapHeight)

BothLayersEmpty == lowerLayer.rects = <<>> /\ upperLayer.rects = <<>>

\* C8 as stated: plane values that are 0 or >= TILE_ID_MAX add no rect to
\* either layer, so a map holding only such values, in any of its five
\* planes, leaves both layers empty after every repaint.
C8_EmptyPlanesDrawNothing ==
    (/\ call = "updateTransform"
     /\ repainted
     /\ mapData # Null => \A i \in DOMAIN mapData[1] : EmptyOrOver(mapData[1][i]))
        => BothLayersEmpty

\* C8, amended: a value of planes 0..3 that is 0 or >= TILE_ID_MAX adds no
\* rect, and a value of the shadow plane adds none when its low four bits are
\* zero; a map holding only such values, the all-zero map among them, leaves
\* both layers empty after every repaint, for every scroll origin, animation
\* frame and wrap setting.
C8_EmptyTilesDrawNothing ==
    (/\ call = "updateTransform"
     /\ repainted
     /\ mapData # Null =>
            \A i \in DOMAIN mapData[1] :
                IF PlaneOfEntry(i) < 4
                THEN EmptyOrOver(mapData[1][i])
                ELSE mapData[1][i] % 16 = 0)
        => BothLayersEmpty

\* A repaint, at a defined animation frame and with both wraps on, of the map
\* whose planes 0..3 hold ids >= TILE_ID_MAX, which left both layers empty.
C8_OverflowingIdsRepainted ==
    /\ call = "updateTransform"
    /\ repainted
    /\ mapData = << MapOver.data >>
    /\ horizontalWrap
    /\ verticalWrap
    /\ animationFrame = 0
    /\ BothLayersEmpty

\* The z, y and spriteId of child c in the current state.
Key(c) == ChildKey(c, lowerLayer.y, upperLayer.y)

\* a comes no later than b in the order by z, then y, then spriteId.
KeyLeq(a, b) ==
    \/ a.z < b.z
    \/ a.z = b.z /\ a.y < b.y
    \/ a.z = b.z /\ a.y = b.y /\ a.spriteId <= b.spriteId

ChildSet == {children[i] : i \in DOMAIN children}

\* Where child c stands in s.
Position(s, c) == CHOOSE i \in DOMAIN s : s[i] = c

ChildrenSorted ==
    \A i \in DOMAIN children : \A j \in DOMAIN children :
        i < j => KeyLeq(Key(children[i]), Key(children[j]))

\* C9: after every updateTransform the children, the two layers among them,
\* are in non-decreasing order by z, then y, then spriteId; the call only
\* permutes them, and children with equal keys keep their relative order.
C9_ChildrenInDepthOrder ==
    /\ [](call = "updateTransform" /\ ~threw => ChildrenSorted)
    /\ [][call' = "updateTransform" /\ ~threw' =>
              /\ Len(children') = Len(children)
              /\ \A i \in DOMAIN children : \E j \in DOMAIN children' :
                     children'[j] = children[i]
              /\ \A a \in ChildSet : \A b \in ChildSet :
                     (/\ Position(children, a) < Position(children, b)
                      /\ Key(a)' = Key(b)')
                         => Position(children', a) < Position(children', b)]_vars

\* Two sprites with z = 0, the one added later with y = 5 sorted before the
\* one with y = 10, and the upper layer (z = 4) last.
C9_LaterSpriteSortedFirst ==
    /\ call = "updateTransform"
    /\ Len(children) = 4
    /\ children[4] = UpperLayerId
    /\ \E i \in DOMAIN children : \E j \in DOMAIN children :
           /\ i < j
           /\ children[i] > children[j]
           /\ children[j] > UpperLayerId
           /\ sprites[children[i]].z = 0
           /\ sprites[children[j]].z = 0
           /\ sprites[children[i]].y = 5
           /\ sprites[children[j]].y = 10

\* Every bitmap of the current list is ready and no listener still waits on one.
ListLoadedAndNotified ==
    /\ IsReady
    /\ \A i \in DOMAIN bitmaps : loadListeners[bitmaps[i]] = 0

\* C10: after setBitmaps, under any interleaving of loads, further setBitmaps
\* calls and frames, the list is handed to the draw layer only when every
\* bitmap of the current list is ready; once all are ready and notified it
\* has been handed over exactly once, a repaint was requested with it, and
\* the next updateTransform expands again.
C10_DeferredCommit ==
    /\ [](/\ commits.count > 0 => (IsReady /\ lowerLayer.bitmaps = bitmaps)
          /\ commits.count <= 1
          /\ (commits.listSet /\ ListLoadedAndNotified) =>
                 (commits.count = 1 /\ ~needsBitmapsUpdate)
          /\ commits.repaintDue => needsRepaint)
    /\ [][(call' = "updateTransform" /\ commits.repaintDue) => repainted']_vars

\* A list of two different bitmaps handed over by the load of the second one.
C10_CommitOnLastLoad ==
    /\ call = "load"
    /\ Len(bitmaps) = 2
    /\ bitmaps[1] # bitmaps[2]
    /\ commits.count = 1
    /\ commits.repaintDue
    /\ lowerLayer.bitmaps = bitmaps

\* A rect of table-edge stitching: a quarter of a tile high, its source
\* starting half-way down a quadrant of the tileset.
IsEdgeRect(r) ==
    /\ r[7] = tileHeight \div 4
    /\ r[3] # NaN
    /\ r[3] % (tileHeight \div 2) = tileHeight \div 4

EdgeRectsIn(rects) == Cardinality({i \in DOMAIN rects : IsEdgeRect(rects[i])})

\* The cell _addSpot was called on stitches a table edge: the plane-1 tile of
\* the cell above is a table tile, its own plane-1 tile is none, its plane-0
\* tile is not shadowing.
StitchingCell ==
    /\ IsTableTile(ReadMapData(args[1], args[2] - 1, 1))
    /\ ~IsTableTile(ReadMapData(args[1], args[2], 1))
    /\ ~IsShadowingTile(ReadMapData(args[1], args[2], 0))

\* The two rects the edge of table tile t adds to the cell at (dx, dy): from
\* entries 2 and 3 of the floor table's entry for the shape of t.
ExpectedEdgeRects(t, dx, dy) ==
    LET kind == (t - TILE_ID_A1) \div ShapesPerKind
        entry == FLOOR_AUTOTILE_TABLE[((t - TILE_ID_A1) % ShapesPerKind) + 1]
        bx == (kind % 8) * 2
        by == ((kind \div 8) - 2) * 3
        w1 == tileWidth \div 2
        h1 == tileHeight \div 2
    IN  { <<1, (bx * 2 + entry[3][1]) * w1, (by * 2 + entry[3][2]) * h1 + h1 \div 2,
            dx, dy, w1, h1 \div 2>>,
          <<1, (bx * 2 + entry[4][1]) * w1, (by * 2 + entry[4][2]) * h1 + h1 \div 2,
            dx + w1, dy, w1, h1 \div 2>> }

TableEdgeRule ==
    /\ EdgeRectsIn(ret[2]) = 0
    /\ IF StitchingCell
       THEN /\ EdgeRectsIn(ret[1]) = 2
            /\ {ret[1][i] : i \in {j \in DOMAIN ret[1] : IsEdgeRect(ret[1][j])}}
                   = ExpectedEdgeRects(ReadMapData(args[1], args[2] - 1, 1),
                                       args[1] * tileWidth, args[2] * tileHeight)
       ELSE EdgeRectsIn(ret[1]) = 0

\* C11: for every cell, table-edge stitching adds exactly 2 extra half-height
\* rects, from quadrant entries 2 and 3 of the floor-table entry of the tile
\* above, to the lower layer when the plane-1 tile of the cell above is a
\* table tile, the cell's own plane-1 tile is not and its plane-0 tile is not
\* shadowing; in every other case it adds none.
C11_TableEdgeAddsTwo == call = "addSpot" => TableEdgeRule

\* The same for the cells whose expansion raises no error.
TableEdgeWhenExpanded == (call = "addSpot" /\ ~threw) => TableEdgeRule

\* A cell below a table tile, expanded without error, with the two rects of
\* the edge in the lower layer.
TableEdgeStitched ==
    /\ call = "addSpot"
    /\ ~threw
    /\ StitchingCell
    /\ EdgeRectsIn(ret[1]) = 2

\* The rects _addSpotTile added, lower layer first.
DrawnRects == ret[1] \o ret[2]

\* The entry of the table _addAutotile selects for autotile t, or <<>> when
\* the table has no entry for the shape of t.
SelectedEntry(t) ==
    LET tbl == AutotileTable(AutotileParams(t).table)
        shape == (t - TILE_ID_A1) % ShapesPerKind
    IN  IF shape + 1 \in DOMAIN tbl THEN tbl[shape + 1] ELSE <<>>

\* rects are 4 half-tile rects, one per destination quadrant of the tile at
\* (0, 0), with sources ((bx * 2 + qsx) * w / 2, (by * 2 + qsy) * h / 2) for
\* the <<qsx, qsy>> of entry and some bx >= 0 and by >= 0.
FourQuadrants(rects, entry) ==
    LET w1 == tileWidth \div 2
        h1 == tileHeight \div 2
    IN  /\ Len(rects) = 4
        /\ Len(entry) = 4
        /\ \A i \in 0..3 :
               /\ rects[i + 1][4] = (i % 2) * w1
               /\ rects[i + 1][5] = (i \div 2) * h1
               /\ rects[i + 1][6] = w1
               /\ rects[i + 1][7] = h1
               /\ rects[i + 1][1] = rects[1][1]
        /\ LET bx2 == rects[1][2] \div w1 - entry[1][1]
               by2 == rects[1][3] \div h1 - entry[1][2]
           IN  /\ bx2 >= 0 /\ bx2 % 2 = 0
               /\ by2 >= 0 /\ by2 % 2 = 0
               /\ \A i \in 1..4 :
                      /\ rects[i][2] = (bx2 + entry[i][1]) * w1
                      /\ rects[i][3] = (by2 + entry[i][2]) * h1

\* The 4 rects of A1_BASE at the current frame: set 0, by = 0 and
\* bx = 2 * waterSurfaceIndex, floor entry [[2,4],[1,4],[2,3],[1,3]].
BaseWaterRects ==
    LET wsi == <<0, 1, 2, 1>>[(animationFrame % 4) + 1]
        w1 == tileWidth \div 2
        h1 == tileHeight \div 2
        e == << <<2, 4>>, <<1, 4>>, <<2, 3>>, <<1, 3>> >>
    IN  [i \in 1..4 |->
            <<0, (2 * wsi * 2 + e[i][1]) * w1, e[i][2] * h1,
              ((i - 1) % 2) * w1, ((i - 1) \div 2) * h1, w1, h1>>]

AutotileRule ==
    /\ (IsVisibleTile(args[1]) /\ IsAutotile(args[1]) /\ ~IsTableTile(args[1]))
           => FourQuadrants(DrawnRects, SelectedEntry(args[1]))
    /\ (args[1] = TILE_ID_A1 /\ ~IsHigherTile(args[1]))
           => (ret[1] = BaseWaterRects /\ ret[2] = <<>>)

\* C12: at a defined animation frame, a visible autotile that is not a table
\* tile emits exactly 4 half-tile rects, one per destination quadrant, with
\* sources taken from the selected table's entry for its shape; for A1_BASE
\* (kind 0, shape 0) without the higher flag they go to the lower layer with
\* the floor entry [[2,4],[1,4],[2,3],[1,3]], by = 0 and
\* bx = 2 * [0,1,2,1][animationFrame mod 4].
C12_AutotileEmitsFourRects ==
    (call = "addSpotTile" /\ animationFrame # Undefined) => AutotileRule

\* The same for the autotiles drawn without error.
AutotileRuleWhenDrawn ==
    (call = "addSpotTile" /\ animationFrame # Undefined /\ ~threw) => AutotileRule

\* A1_BASE drawn at frame 2, where waterSurfaceIndex is 2.
BaseWaterAtFrameTwo ==
    /\ call = "addSpotTile"
    /\ args[1] = TILE_ID_A1
    /\ animationFrame = 2
    /\ ret[1] = BaseWaterRects
    /\ ret[1][1][2] = 10 * (tileWidth \div 2)

\* ------------------------------------------------------------------------
\* Routing of the rects to the two layers

\* The cells <<x, y>> of the visible window.
WindowCells == (0..(TileCols - 1)) \X (0..(TileRows - 1))

\* The tile of plane z of the window cell c in the last expansion.
TileAt(c, z) == ReadMapData(lastStartX + c[1], lastStartY + c[2], z)

\* The rects of the tile of plane z of the window cell c.
TileRects(c, z) == AddTile(TileAt(c, z), c[1] * tileWidth, c[2] * tileHeight).rects

Elements(seq) == {seq[i] : i \in DOMAIN seq}

IsShadowRect(r) == r[1] = -1

\* The number of bits set among the low four bits of v.
LowBits(v) == Cardinality({i \in 0..3 : BitSet(v, i)})

RoutingRule ==
    LET upper == Elements(upperLayer.rects)
        lower == Elements(lowerLayer.rects)
    IN  /\ \A r \in upper :
               \E c \in WindowCells, z \in 0..3 :
                   IsHigherTile(TileAt(c, z)) /\ r \in Elements(TileRects(c, z))
        /\ \A c \in WindowCells, z \in 0..3 :
               IF IsHigherTile(TileAt(c, z))
               THEN Elements(TileRects(c, z)) \subseteq upper
               ELSE Elements(TileRects(c, z)) \subseteq lower
        /\ \A r \in upper : ~IsShadowRect(r) /\ ~IsEdgeRect(r)
        /\ \A c \in WindowCells :
               /\ Cardinality({r \in lower : /\ IsShadowRect(r)
                                             /\ r[4] \div tileWidth = c[1]
                                             /\ r[5] \div tileHeight = c[2]})
                      = LowBits(TileAt(c, 4))
               /\ ~IsOverpassPosition(lastStartX + c[1], lastStartY + c[2])

\* C13: after any repaint every rect of the upper layer comes from a tile of
\* planes 0..3 whose flag has bit 0x10 set, and such a tile is drawn there;
\* every tile of planes 0..3 without the bit (or without a flag entry) is drawn
\* in the lower layer; shadow rects (set number -1, one quarter rect for each
\* set bit of the low four bits) and table-edge rects are in the lower layer
\* only, and no cell is an overpass position.
C13_HigherFlagRoutes ==
    (call = "updateTransform" /\ repainted /\ ~threw) => RoutingRule

\* A repaint that drew a higher tile in the upper layer and, in the lower
\* layer, a tile without the higher flag, a shadow and a table edge.
C13_BothLayersDrawn ==
    /\ call = "updateTransform"
    /\ repainted
    /\ ~threw
    /\ upperLayer.rects # <<>>
    /\ \E r \in Elements(lowerLayer.rects) : IsShadowRect(r)
    /\ \E r \in Elements(lowerLayer.rects) : IsEdgeRect(r)
    /\ \E c \in WindowCells, z \in 0..3 :
           ~IsHigherTile(TileAt(c, z)) /\ TileRects(c, z) # <<>>

\* ------------------------------------------------------------------------
\* The animation frame

FrameOfCount == animationCount \div TicksPerFrame

\* C14: in every state in which updateTransform can run, from construction
\* on, animationFrame is floor(animationCount / 30); so every updateTransform,
\* the first one included, runs at that frame.
C14_FrameIsCountOverThirty ==
    call = "updateTransform" => animationFrame = FrameOfCount

\* From the first update on animationFrame is floor(animationCount / 30), and
\* an updateTransform at a frame other than the one last expanded repaints.
FrameFollowsCountOnceUpdated ==
    /\ animationCount > 0 => animationFrame = FrameOfCount
    /\ animationCount = 0 => animationFrame = Undefined
    /\ (call = "updateTransform" /\ ~threw) => lastAnimationFrame = animationFrame

\* An updateTransform that ran before any update and expanded a water tile
\* at the undefined frame: the source x of its rects is NaN.
RepaintedAtUndefinedFrame ==
    /\ call = "updateTransform"
    /\ repainted
    /\ animationCount = 0
    /\ expansion.frame = Undefined
    /\ \E i \in DOMAIN lowerLayer.rects : lowerLayer.rects[i][2] = NaN

\* ------------------------------------------------------------------------
\* The layers against the current map

\* Both layers hold exactly the expansion of the current map data, flags and
\* wrap settings over the current window.
LayersShowCurrentMap ==
    \E exp \in {AddAllSpots(StartX, StartY)} :
        /\ lowerLayer.rects = exp.lower
        /\ upperLayer.rects = exp.upper

\* C15: after every updateTransform the rects of the two layers are exactly
\* the expansion of the current map over the current window, with nothing left
\* from earlier repaints; so the first updateTransform after a setData shows
\* the new map, also at an unchanged origin and frame and without a refresh.
C15_LayersShowCurrentMap ==
    (call = "updateTransform" /\ ~threw) => LayersShowCurrentMap

\* After every updateTransform that expanded, the layers show the current map.
LayersShowCurrentMapWhenRepainted ==
    (call = "updateTransform" /\ repainted /\ ~threw) => LayersShowCurrentMap

\* The first updateTransform after a setData that kept the rects of the map
\* loaded before.
StaleLayersAfterSetData ==
    /\ call = "updateTransform"
    /\ ~repainted
    /\ ~threw
    /\ mapData # Null
    /\ ~LayersShowCurrentMap

\* ------------------------------------------------------------------------
\* The autotile types against the table selected

\* C16: for every autotile id in [TILE_ID_A1, TILE_ID_MAX) exactly one of
\* isFloorTypeAutotile, isWallTypeAutotile and isWaterfallTypeAutotile holds,
\* and the table _addAutotile selects for the id is the floor table, the wall
\* table or the waterfall table respectively.
C16_TypeMatchesTable ==
    call = "autotileType" =>
        /\ Cardinality({i \in 1..3 : ret[i]}) = 1
        /\ ret[1] <=> ret[4] = "floor"
        /\ ret[2] <=> ret[4] = "wall"
        /\ ret[3] <=> ret[4] = "waterfall"

\* A wall side of bank A4, of the wall type, with the wall table selected.
C16_WallSideOfA4 ==
    /\ call = "autotileType"
    /\ IsTileA4(args[1])
    /\ ret[2]
    /\ ret[4] = "wall"

====
